---- MODULE Spec2Model ----
(***************************************************************************)
(* Streaming FLAC decode pipeline of components/flac/flacdecoder.h:        *)
(* is_flac / parse_stream_info (open), handle_refill / decode_flac (step), *)
(* ensure_output_buffer (output sizing), flac_instance_init / _free.       *)
(*                                                                         *)
(* A byte held in memory is identified by the file it was read from and    *)
(* its offset there (Tok).  The container header of a file is modelled     *)
(* byte for byte; the audio region is a sequence of frames whose bytes     *)
(* are only told apart by their position.                                  *)
(***************************************************************************)
EXTENDS Integers, Sequences, FiniteSets, TLC

VARIABLES
    instance,   \* flac_instance: ctx, data_buf, data_buf_size, bytes_in_data_buf, read_ptr, ...
    output,     \* decode_data: samples, samples_capacity, samples_capacity_max, fmt, frame_count
    fp,         \* FILE*: the file, its position, its end-of-file indicator
    last        \* the last call made and what it returned

vars == <<instance, output, fp, last>>

----------------------------------------------------------------------------
(* Bounds of the model *)

\* size of a short read caused by a read error, in bytes
ShortRead == 1500
\* read errors met while one stream is decoded
MaxReadErrors == 2
\* largest required_bytes handed to ensure_output_buffer by direct calls
MaxRequired == 12

(* Program constants *)

\* std::max<size_t>(data_buffer_target, 4 * 1024)
MinDataBuf == 4096
\* data buffer size when max_framesize is not advertised: 16 * 1024
DefaultDataBuf == 16384
\* slack added to max_framesize
DataBufSlack == 16
\* length of a STREAMINFO block
StreamInfoLen == 34
\* length of an ID3v2 tag header
Id3HeaderLen == 10

----------------------------------------------------------------------------
(* Byte sequences *)

Min(a, b) == IF a < b THEN a ELSE b
Max(a, b) == IF a > b THEN a ELSE b

Pow2(n) == 2 ^ n

Zeros(n) == [i \in 1..n |-> 0]

\* the k big-endian bytes of n
RECURSIVE BE(_, _)
BE(n, k) == IF k = 0 THEN <<>> ELSE BE(n \div 256, k - 1) \o <<n % 256>>

\* the 4 syncsafe bytes of n (7 bits per byte)
Syncsafe(n) ==
    << (n \div Pow2(21)) % 128, (n \div Pow2(14)) % 128, (n \div Pow2(7)) % 128, n % 128 >>

\* "ID3" and "fLaC"
Id3Mark == <<73, 68, 51>>
FlacMagic == <<102, 76, 97, 67>>

\* STREAMINFO payload of stream parameters si (total samples below 2^31)
StreamInfoBytes(si) ==
    BE(si.min_bs, 2) \o BE(si.max_bs, 2) \o BE(si.min_fs, 3) \o BE(si.max_fs, 3)
    \o << si.sr \div 4096,
          (si.sr \div 16) % 256,
          (si.sr % 16) * 16 + (si.ch - 1) * 2 + ((si.bps - 1) \div 16),
          ((si.bps - 1) % 16) * 16 >>
    \o BE(si.total, 4)
    \o Zeros(16)

\* a metadata block: 1-bit last flag, 7-bit type, 24-bit length, payload
BlockBytes(b) ==
    << (IF b.last THEN 128 ELSE 0) + b.type >> \o BE(b.len, 3)
    \o (IF b.type = 0 /\ b.len = StreamInfoLen THEN StreamInfoBytes(b.si) ELSE Zeros(b.len))

RECURSIVE BlocksBytes(_)
BlocksBytes(bs) == IF bs = <<>> THEN <<>> ELSE BlockBytes(Head(bs)) \o BlocksBytes(Tail(bs))

\* the container header of file f: optional ID3 tag, leading bytes, magic, metadata
\* blocks, with the last f.cut bytes missing
HeaderBytes(f) ==
    LET full == (IF f.tag >= 0
                    THEN Id3Mark \o <<3, 0, 0>> \o Syncsafe(f.tag) \o Zeros(f.tag)
                    ELSE <<>>)
                \o Zeros(f.lead)
                \o (IF f.magic THEN FlacMagic ELSE <<102, 76, 97, 88>>)
                \o BlocksBytes(f.blocks)
    IN  SubSeq(full, 1, Len(full) - f.cut)

RECURSIVE SumLen(_)
SumLen(frames) == IF frames = <<>> THEN 0 ELSE Head(frames).len + SumLen(Tail(frames))

----------------------------------------------------------------------------
(* The files of the model *)

StreamInfo(ch, bps, max_bs, max_fs, sr) ==
    [min_bs |-> max_bs, max_bs |-> max_bs, min_fs |-> 0, max_fs |-> max_fs,
     sr |-> sr, ch |-> ch, bps |-> bps, total |-> 44100]

NoStreamInfo == StreamInfo(1, 1, 0, 0, 0)

\* a STREAMINFO block, a block of another type, and a type-0 block of another length
InfoBlock(si, islast) == [type |-> 0, len |-> StreamInfoLen, last |-> islast, si |-> si]
OtherBlock(n, islast) == [type |-> 4, len |-> n, last |-> islast, si |-> NoStreamInfo]
OddInfoBlock(n, islast) == [type |-> 0, len |-> n, last |-> islast, si |-> NoStreamInfo]

Frame(kind, len) == [kind |-> kind, len |-> len, bs |-> 4096]

File(tag, lead, magic, blocks, cut, frames) ==
    [tag |-> tag, lead |-> lead, magic |-> magic, blocks |-> blocks,
     cut |-> cut, frames |-> frames]

Cd == StreamInfo(2, 16, 4096, 3000, 44100)

\* metadata layouts around a STREAMINFO block si
BlockLists(si) ==
    << <<InfoBlock(si, TRUE)>>,
       <<InfoBlock(si, FALSE), OtherBlock(7, TRUE)>>,
       <<OtherBlock(7, FALSE), InfoBlock(si, TRUE)>>,
       <<InfoBlock(si, FALSE)>>,
       <<OtherBlock(7, TRUE)>>,
       <<OddInfoBlock(20, FALSE), InfoBlock(si, TRUE)>>,
       <<InfoBlock(Cd, FALSE), InfoBlock(si, TRUE)>> >>

\* files that are opened and decoded.  lead = 4 puts four bytes in front of the magic.
StreamFiles ==
    << File(-1, 4, TRUE, <<InfoBlock(Cd, TRUE)>>, 0,
            <<Frame("valid", 1000), Frame("valid", 1000), Frame("valid", 3000)>>),
       File(-1, 4, TRUE, <<InfoBlock(Cd, TRUE)>>, 0,
            <<Frame("valid", 1500), Frame("corrupt", 1000), Frame("valid", 1596)>>),
       File(200, 4, TRUE, <<InfoBlock(Cd, TRUE)>>, 0,
            <<Frame("valid", 500), Frame("corrupt", 300), Frame("valid", 500)>>),
       File(-1, 4, TRUE, <<InfoBlock(Cd, TRUE)>>, 0,
            <<Frame("valid", 3000), Frame("valid", 3000), Frame("valid", 3000)>>),
       File(-1, 4, TRUE, <<InfoBlock(StreamInfo(1, 8, 256, 0, 8000), TRUE)>>, 0, <<>>),
       File(-1, 4, TRUE, <<InfoBlock(StreamInfo(2, 24, 4096, 5000, 44100), TRUE)>>, 0,
            <<Frame("valid", 2000), Frame("valid", 5000), Frame("junk", 3000)>>),
       File(-1, 0, TRUE, <<InfoBlock(Cd, TRUE)>>, 37, <<>>),
       File(-1, 4, TRUE, <<InfoBlock(StreamInfo(3, 16, 4096, 3000, 44100), TRUE)>>, 0,
            <<Frame("valid", 1000)>>),
       File(-1, 0, TRUE, <<InfoBlock(StreamInfo(1, 8, 256, 0, 8000), TRUE)>>, 0, <<>>) >>

\* the i-th choice (from 0, wrapping around) of a sequence of choices
Pick(choices, i) == choices[(i % Len(choices)) + 1]

\* files that are only opened, around one STREAMINFO block: with and without an ID3
\* tag and bytes in front of the magic; with a wrong magic; in every metadata
\* layout; with the last bytes missing
Mono24 == StreamInfo(1, 24, 256, 0, 8000)

TagLeadFiles ==
    [i \in 1..6 |->
        File(Pick(<<-1, 0, 200>>, i - 1), Pick(<<0, 4>>, (i - 1) \div 3), TRUE,
             <<InfoBlock(Mono24, TRUE)>>, 0, <<>>)]

BadMagicFiles ==
    [i \in 1..2 |->
        File(Pick(<<-1, 200>>, i - 1), 4, FALSE, <<InfoBlock(Mono24, TRUE)>>, 0, <<>>)]

LayoutFiles ==
    [i \in 1..6 |-> File(-1, 4, TRUE, BlockLists(Mono24)[i + 1], 0, <<>>)]

PlainLayoutFiles ==
    [i \in 1..2 |-> File(-1, 0, TRUE, BlockLists(Mono24)[i + 1], 0, <<>>)]

CutFiles ==
    [i \in 1..4 |->
        File(Pick(<<-1, 200>>, i - 1), 4, TRUE, <<InfoBlock(Mono24, TRUE)>>,
             Pick(<<1, 40>>, (i - 1) \div 2), <<>>)]

\* every STREAMINFO block, alone, and after another STREAMINFO block
InfoFiles ==
    [i \in 1..32 |->
        LET si == StreamInfo(Pick(<<1, 2, 3, 8>>, i - 1),
                             Pick(<<16, 24>>, (i - 1) \div 4),
                             Pick(<<0, 4096>>, (i - 1) \div 8),
                             Pick(<<3000, 5000>>, (i - 1) \div 4),
                             44100)
        IN  File(-1, 4, TRUE,
                 Pick(<< <<InfoBlock(si, TRUE)>>,
                         <<InfoBlock(Cd, FALSE), InfoBlock(si, TRUE)>> >>, (i - 1) \div 16),
                 0, <<>>)]

\* every file, by number; 0 is the stream of a handle that was never given a file
Files == StreamFiles \o TagLeadFiles \o BadMagicFiles \o LayoutFiles \o PlainLayoutFiles
         \o CutFiles \o InfoFiles
StreamIds == 1..Len(StreamFiles)
ProbeIds == (Len(StreamFiles) + 1)..Len(Files)

\* header bytes, start of the audio region and length of every file
HeaderOf == [id \in 1..Len(Files) |-> HeaderBytes(Files[id])]
AudioStartOf == [id \in 1..Len(Files) |-> Len(HeaderBytes(Files[id]))]
FileLenOf == [id \in 1..Len(Files) |-> Len(HeaderBytes(Files[id])) + SumLen(Files[id].frames)]

AudioStart(id) == IF id = 0 THEN 0 ELSE AudioStartOf[id]
FileLen(id) == IF id = 0 THEN 0 ELSE FileLenOf[id]
FramesOf(id) == IF id = 0 THEN <<>> ELSE Files[id].frames

\* index of the frame that holds file offset off (0 when off is no audio byte)
RECURSIVE FrameIndexAt(_, _, _, _)
FrameIndexAt(frames, start, off, k) ==
    IF frames = <<>> \/ off < start THEN 0
    ELSE IF off < start + Head(frames).len THEN k
    ELSE FrameIndexAt(Tail(frames), start + Head(frames).len, off, k + 1)

RECURSIVE FrameStart(_, _)
FrameStart(id, k) ==
    IF k <= 1 THEN AudioStart(id) ELSE FrameStart(id, k - 1) + FramesOf(id)[k - 1].len

\* the byte of file id at offset off, as held in memory
Tok(id, off) == id * Pow2(16) + off
TokId(t) == t \div Pow2(16)
TokOff(t) == t % Pow2(16)

\* the n bytes of file id from offset pos on
Toks(id, pos, n) == [i \in 1..n |-> Tok(id, pos + i - 1)]

\* the bytes that carry a frame sync: the first byte of every frame that is not junk
SyncToks ==
    UNION { { Tok(id, FrameStart(id, k)) :
                k \in {j \in 1..Len(FramesOf(id)) : FramesOf(id)[j].kind # "junk"} } :
            id \in StreamIds }

\* value of the byte of file id at offset off: header bytes as written, 0xFF at a
\* frame sync, 0 elsewhere in the audio region
ByteVal(id, off) ==
    IF off < AudioStart(id) THEN HeaderOf[id][off + 1]
    ELSE IF Tok(id, off) \in SyncToks THEN 255
    ELSE 0

----------------------------------------------------------------------------
(* FILE* : fread, fseek, ftell, feof *)

\* fread of n bytes at the current position: the byte values read, their number, and
\* the stream afterwards; the end-of-file indicator is set when the read ran into
\* the end of the file
fread(f, n) ==
    LET avail == Max(0, FileLen(f.file) - f.pos)
        got   == Min(n, avail)
    IN  [bytes |-> [i \in 1..got |-> ByteVal(f.file, f.pos + i - 1)],
         n     |-> got,
         fp    |-> [f EXCEPT !.pos = f.pos + got, !.eof = f.eof \/ (n > avail)]]

\* fseek clears the end-of-file indicator
fseek(f, off) == [f EXCEPT !.pos = off, !.eof = FALSE]

ftell(f) == f.pos

----------------------------------------------------------------------------
(* Big-endian field readers; buf is a byte sequence, i a 0-based offset into it *)

read_be16(buf, i) == buf[i + 1] * 256 + buf[i + 2]

read_be24(buf, i) == buf[i + 1] * 65536 + buf[i + 2] * 256 + buf[i + 3]

\* read_be64 has no 64-bit counterpart here: the fields of the packed word are taken
\* from its bytes.  packed = buf[i..i+7], bit 63 first.
\* (packed >> 44) & 0xFFFFF
PackedSampleRate(buf, i) == buf[i + 1] * 4096 + buf[i + 2] * 16 + (buf[i + 3] \div 16)
\* ((packed >> 41) & 0x7) + 1
PackedChannels(buf, i) == ((buf[i + 3] \div 2) % 8) + 1
\* ((packed >> 36) & 0x1F) + 1
PackedBps(buf, i) == ((buf[i + 3] % 2) * 16 + (buf[i + 4] \div 16)) + 1
\* packed & 0xFFFFFFFFF, as its five base-256 digits
PackedTotalSamples(buf, i) ==
    << buf[i + 4] % 16, buf[i + 5], buf[i + 6], buf[i + 7], buf[i + 8] >>

read_id3_size(buf, i) ==
    (buf[i + 1] % 128) * Pow2(21) + (buf[i + 2] % 128) * Pow2(14)
    + (buf[i + 3] % 128) * Pow2(7) + (buf[i + 4] % 128)

----------------------------------------------------------------------------
(* Output sizing *)

\* ensure_output_buffer that records the bytes asked for, not the bytes allocated,
\* as the high-water mark
ensure_output_buffer_MarkRequired(out, required_bytes, allocOK) ==
    LET alloc_bytes == required_bytes * 2 IN
    IF alloc_bytes = 0 \/ alloc_bytes \div 2 # required_bytes
        THEN [ok |-> FALSE, nomem |-> FALSE, output |-> out]
    ELSE IF out.samples_capacity_max >= alloc_bytes
        THEN [ok |-> TRUE, nomem |-> FALSE,
              output |-> [out EXCEPT !.samples_capacity = required_bytes]]
    ELSE IF ~allocOK
        THEN [ok |-> FALSE, nomem |-> TRUE, output |-> out]
    ELSE [ok |-> TRUE, nomem |-> FALSE,
          output |-> [out EXCEPT !.samples = TRUE,
                                 !.samples_capacity = required_bytes,
                                 !.samples_capacity_max = required_bytes]]

\* ensure_output_buffer with a reuse branch that also resets the high-water mark
ensure_output_buffer_Shrinking(out, required_bytes, allocOK) ==
    LET alloc_bytes == required_bytes * 2 IN
    IF alloc_bytes = 0 \/ alloc_bytes \div 2 # required_bytes
        THEN [ok |-> FALSE, nomem |-> FALSE, output |-> out]
    ELSE IF out.samples_capacity_max >= alloc_bytes
        THEN [ok |-> TRUE, nomem |-> FALSE,
              output |-> [out EXCEPT !.samples_capacity = required_bytes,
                                     !.samples_capacity_max = alloc_bytes]]
    ELSE IF ~allocOK
        THEN [ok |-> FALSE, nomem |-> TRUE, output |-> out]
    ELSE [ok |-> TRUE, nomem |-> FALSE,
          output |-> [out EXCEPT !.samples = TRUE,
                                 !.samples_capacity = required_bytes,
                                 !.samples_capacity_max = alloc_bytes]]

\* ensure_output_buffer(output, required_bytes); allocOK tells whether realloc
\* succeeds, nomem whether the call failed for want of memory.  size_t is 32 bits
\* wide; required_bytes stays below 2^30 here, so the doubling does not wrap.
ensure_output_buffer(out, required_bytes, allocOK) ==
    LET alloc_bytes == required_bytes * 2 IN
    IF alloc_bytes = 0 \/ alloc_bytes \div 2 # required_bytes
        THEN [ok |-> FALSE, nomem |-> FALSE, output |-> out]
    ELSE IF out.samples_capacity_max >= alloc_bytes
        THEN [ok |-> TRUE, nomem |-> FALSE,
              output |-> [out EXCEPT !.samples_capacity = required_bytes]]
    ELSE IF ~allocOK
        THEN [ok |-> FALSE, nomem |-> TRUE, output |-> out]
    ELSE [ok |-> TRUE, nomem |-> FALSE,
          output |-> [out EXCEPT !.samples = TRUE,
                                 !.samples_capacity = required_bytes,
                                 !.samples_capacity_max = alloc_bytes]]

\* channels_out without the mono upmix
ChannelsOut_NoUpmix(ctx) == ctx.channels

\* channels_out: mono is written as two channels
ChannelsOut(ctx) == IF ctx.channels = 1 THEN 2 ELSE ctx.channels

\* bytes_per_sample: sizeof(int32_t) above 16 bits, else sizeof(int16_t)
BytesPerSample(ctx) == IF ctx.bps > 16 THEN 4 ELSE 2

\* required_bytes = max_blocksize * channels_out * bytes_per_sample
RequiredBytes(ctx) == ctx.max_blocksize * ChannelsOut(ctx) * BytesPerSample(ctx)

\* data_buffer_target of parse_stream_info
DataBufferTarget(ctx) ==
    Max(IF ctx.max_framesize # 0 THEN ctx.max_framesize + DataBufSlack ELSE DefaultDataBuf,
        MinDataBuf)

----------------------------------------------------------------------------
(* flac_instance *)

ZeroCtx ==
    [min_blocksize |-> 0, max_blocksize |-> 0, min_framesize |-> 0, max_framesize |-> 0,
     samplerate |-> 0, channels |-> 0, blocksize |-> 0, bps |-> 0,
     samplenumber |-> 0, totalsamples |-> <<0, 0, 0, 0, 0>>,
     bitstream_size |-> 0, bitstream_index |-> 0, sample_skip |-> 0, framesize |-> 0,
     decoded0 |-> 0, decoded1 |-> 0]

\* the heap blocks of a handle: for each of its three pointers, the blocks that
\* malloc / realloc handed out for it less those handed back to free / realloc
NoBlocks == [decoded0 |-> 0, decoded1 |-> 0, data_buf |-> 0]

\* free(p) behind "if (p)": one block handed back when the pointer is not null
Freed(blocks, nonnull) == IF nonnull THEN blocks - 1 ELSE blocks

\* the instance after flac_instance_init.  data_buf tells whether the pointer is
\* non-null, data holds data_buf[0 .. bytes_in_data_buf), read_ptr is the offset
\* read_ptr - data_buf, decoded0/decoded1 are the element counts of the regions
\* (0 for nullptr).  heap is no field of the struct: it counts the blocks of the
\* handle, from its initialisation on.
flac_instance_init ==
    [ctx |-> ZeroCtx, data_buf |-> FALSE, data |-> <<>>, data_buf_size |-> 0,
     bytes_in_data_buf |-> 0, read_ptr |-> 0, eof_reached |-> FALSE, data_start |-> 0,
     heap |-> NoBlocks]

\* flac_instance_free that frees decoded1 and leaves the pointer as it was
flac_instance_free_Dangling(inst) ==
    [inst EXCEPT !.heap = [decoded0 |-> Freed(inst.heap.decoded0, inst.ctx.decoded0 # 0),
                           decoded1 |-> Freed(inst.heap.decoded1, inst.ctx.decoded1 # 0),
                           data_buf |-> Freed(inst.heap.data_buf, inst.data_buf)],
                 !.ctx.decoded0 = 0,
                 !.data_buf = FALSE, !.data = <<>>, !.data_buf_size = 0,
                 !.bytes_in_data_buf = 0, !.read_ptr = 0,
                 !.eof_reached = FALSE, !.data_start = 0]

flac_instance_free(inst) ==
    [inst EXCEPT !.heap = [decoded0 |-> Freed(inst.heap.decoded0, inst.ctx.decoded0 # 0),
                           decoded1 |-> Freed(inst.heap.decoded1, inst.ctx.decoded1 # 0),
                           data_buf |-> Freed(inst.heap.data_buf, inst.data_buf)],
                 !.ctx.decoded0 = 0, !.ctx.decoded1 = 0,
                 !.data_buf = FALSE, !.data = <<>>, !.data_buf_size = 0,
                 !.bytes_in_data_buf = 0, !.read_ptr = 0,
                 !.eof_reached = FALSE, !.data_start = 0]

\* a zeroed decode_data
ZeroOutput ==
    [samples |-> FALSE, samples_capacity |-> 0, samples_capacity_max |-> 0,
     sample_rate |-> 0, channels |-> 0, bits_per_sample |-> 0, frame_count |-> 0]

----------------------------------------------------------------------------
(* Opening a stream *)

\* the allocation that fails during an open, if any
OomKinds == {"none", "samples", "decoded0", "decoded1", "data_buf"}

\* what parse_stream_info and is_flac hand back: the return value, whether an
\* allocation failed, and the stream, instance and output they leave
Result(ok, nomem, s, inst, out) ==
    [ok |-> ok, nomem |-> nomem, fp |-> s, instance |-> inst, output |-> out]

\* the context fields taken from the STREAMINFO payload b, lines 183-192
ReadStreamInfo(ctx, b) ==
    [ctx EXCEPT !.min_blocksize = read_be16(b, 0),
                !.max_blocksize = read_be16(b, 2),
                !.min_framesize = read_be24(b, 4),
                !.max_framesize = read_be24(b, 7),
                !.samplerate    = PackedSampleRate(b, 10),
                !.channels      = PackedChannels(b, 10),
                !.bps           = PackedBps(b, 10),
                !.totalsamples  = PackedTotalSamples(b, 10)]

\* lines 213-220: both decode regions freed
FreeDecoded(inst) ==
    [inst EXCEPT !.heap.decoded0 = Freed(inst.heap.decoded0, inst.ctx.decoded0 # 0),
                 !.heap.decoded1 = Freed(inst.heap.decoded1, inst.ctx.decoded1 # 0),
                 !.ctx.decoded0 = 0, !.ctx.decoded1 = 0]

\* line 222
AllocDecoded0(inst) ==
    [inst EXCEPT !.ctx.decoded0 = inst.ctx.max_blocksize,
                 !.heap.decoded0 = inst.heap.decoded0 + 1]

\* lines 226-227
AllocDecoded1(inst) ==
    IF inst.ctx.channels = 2 THEN [inst EXCEPT !.ctx.decoded1 = inst.ctx.max_blocksize,
                                               !.heap.decoded1 = inst.heap.decoded1 + 1]
                             ELSE inst

\* lines 238-247: realloc takes the old block of data_buf, if any, and hands out
\* the new one
AllocDataBuf(inst) ==
    [inst EXCEPT !.heap.data_buf = Freed(inst.heap.data_buf, inst.data_buf) + 1,
                 !.data_buf = TRUE, !.data = <<>>,
                 !.data_buf_size = DataBufferTarget(inst.ctx),
                 !.read_ptr = 0, !.bytes_in_data_buf = 0, !.eof_reached = FALSE]

\* lines 206-247: the buffers of a stream whose STREAMINFO was accepted; e is what
\* ensure_output_buffer returned
AllocBuffers(s, inst, e, oom) ==
    IF ~e.ok
        THEN Result(FALSE, e.nomem, s, inst, e.output)
    ELSE IF oom = "decoded0"
        THEN Result(FALSE, TRUE, s, FreeDecoded(inst), e.output)
    ELSE IF inst.ctx.channels = 2 /\ oom = "decoded1"
        THEN Result(FALSE, TRUE, s, AllocDecoded0(FreeDecoded(inst)), e.output)
    ELSE IF oom = "data_buf"
        THEN Result(FALSE, TRUE, s, AllocDecoded1(AllocDecoded0(FreeDecoded(inst))), e.output)
    ELSE Result(TRUE, FALSE, s,
                AllocDataBuf(AllocDecoded1(AllocDecoded0(FreeDecoded(inst)))), e.output)

\* the checks with the channel limit of the FLAC format, 8, in place of 2
CheckStreamInfo_UpTo8(s, inst, out, oom) ==
    IF inst.ctx.channels = 0 \/ inst.ctx.channels > 8
        THEN Result(FALSE, FALSE, s, inst, out)
    ELSE IF inst.ctx.max_blocksize = 0
        THEN Result(FALSE, FALSE, s, inst, out)
    ELSE AllocBuffers(s, inst,
                      ensure_output_buffer(out, RequiredBytes(inst.ctx), oom # "samples"),
                      oom)

\* lines 195-206: the checks on the fields just stored in inst.ctx
CheckStreamInfo(s, inst, out, oom) ==
    IF inst.ctx.channels = 0 \/ inst.ctx.channels > 2
        THEN Result(FALSE, FALSE, s, inst, out)
    ELSE IF inst.ctx.max_blocksize = 0
        THEN Result(FALSE, FALSE, s, inst, out)
    ELSE AllocBuffers(s, inst,
                      ensure_output_buffer(out, RequiredBytes(inst.ctx), oom # "samples"),
                      oom)

\* lines 176-193: r is the read of the 34-byte payload
StreamInfoBlock(r, inst, out, oom) ==
    IF r.n # StreamInfoLen
        THEN Result(FALSE, FALSE, r.fp, inst, out)
        ELSE CheckStreamInfo(r.fp, [inst EXCEPT !.ctx = ReadStreamInfo(inst.ctx, r.bytes)],
                             out, oom)

\* the metadata-block loop of parse_stream_info, lines 160-254: ParseLoop reads a
\* block header h, ParseBlock takes the block in, AfterStreamInfo goes on after a
\* STREAMINFO block with result b
RECURSIVE ParseLoop(_, _, _, _, _)

AfterStreamInfo(b, last_block, oom) ==
    IF ~b.ok \/ last_block THEN b
    ELSE ParseLoop(b.fp, b.instance, b.output, oom, TRUE)

ParseBlock(h, inst, out, oom, streaminfo_found) ==
    IF h.n # 4
        THEN Result(FALSE, FALSE, h.fp, inst, out)
    ELSE IF h.bytes[1] % 128 = 0 /\ read_be24(h.bytes, 1) = StreamInfoLen
        THEN AfterStreamInfo(StreamInfoBlock(fread(h.fp, StreamInfoLen), inst, out, oom),
                             h.bytes[1] >= 128, oom)
    ELSE IF h.bytes[1] >= 128
        THEN Result(streaminfo_found, FALSE, fseek(h.fp, h.fp.pos + read_be24(h.bytes, 1)),
                    inst, out)
    ELSE ParseLoop(fseek(h.fp, h.fp.pos + read_be24(h.bytes, 1)), inst, out, oom,
                   streaminfo_found)

ParseLoop(s, inst, out, oom, streaminfo_found) ==
    ParseBlock(fread(s, 4), inst, out, oom, streaminfo_found)

parse_stream_info(s, inst, out, oom) == ParseLoop(s, inst, out, oom, FALSE)

\* lines 394-417: where is_flac goes after the 10-byte header: past the ID3 tag when
\* there is one, else back to offset 0
TagEnd(s, header) ==
    IF SubSeq(header, 1, 3) = Id3Mark
        THEN fseek(s, Id3HeaderLen + read_id3_size(header, 6))
        ELSE fseek(s, 0)

\* lines 408-422: 4 bytes are read into header (h), and the magic is the 4 bytes
\* after them
MagicRead(h) == IF h.n # 4 THEN h ELSE fread(h.fp, 4)

\* lines 430-437: runtime state reset, buffers kept
ResetRuntime(inst) ==
    [inst EXCEPT !.bytes_in_data_buf = 0, !.data = <<>>, !.read_ptr = 0,
                 !.eof_reached = FALSE,
                 !.ctx.sample_skip = 0, !.ctx.framesize = 0, !.ctx.samplenumber = 0,
                 !.ctx.bitstream_size = 0, !.ctx.bitstream_index = 0]

\* lines 439-451: p is what parse_stream_info returned
AfterParse(p) ==
    IF ~p.ok
        THEN [p EXCEPT !.fp = fseek(p.fp, 0)]
        ELSE [p EXCEPT !.fp = fseek(p.fp, ftell(p.fp)),
                       !.instance.data_start = ftell(p.fp)]

\* lines 419-451: m is the read of the magic
AfterMagic(m, out, inst, oom) ==
    IF m.n # 4
        THEN Result(FALSE, FALSE, m.fp, inst, out)
    ELSE IF m.bytes # FlacMagic
        THEN Result(FALSE, FALSE, fseek(m.fp, 0), inst, out)
    ELSE AfterParse(parse_stream_info(m.fp, ResetRuntime(inst), out, oom))

\* lines 388-451: h is the read of the 10-byte header
AfterHeader(h, out, inst, oom) ==
    IF h.n # Id3HeaderLen
        THEN Result(FALSE, FALSE, h.fp, inst, out)
        ELSE AfterMagic(MagicRead(fread(TagEnd(h.fp, h.bytes), 4)), out, inst, oom)

\* is_flac(fp, output, instance) on file number f
is_flac(f, out, inst, oom) ==
    AfterHeader(fread(fseek([file |-> f, pos |-> 0, eof |-> FALSE], 0), Id3HeaderLen),
                out, inst, oom)

----------------------------------------------------------------------------
(* The byte source as seen by a refill *)

\* outcomes of fread(data_buf + unread, 1, want, fp): the number of bytes read and
\* the stream afterwards.  A read either returns all that is asked for, or all that
\* is left and sets the end-of-file indicator, or is cut short by a read error
\* (0 or ShortRead bytes), which leaves the indicator alone.
freadOutcomes(f, want) ==
    LET avail == Max(0, FileLen(f.file) - f.pos) IN
    { [n |-> Min(want, avail), err |-> FALSE,
       fp |-> [f EXCEPT !.pos = f.pos + Min(want, avail), !.eof = f.eof \/ (want > avail)]] }
    \cup
    { [n |-> k, err |-> TRUE, fp |-> [f EXCEPT !.pos = f.pos + k]] :
        k \in {j \in {0, ShortRead} : j < Min(want, avail)} }

feof(f) == f.eof

----------------------------------------------------------------------------
(* The frame decoder: flac_seek_frame, flac_decode_frame16 / 24 *)

\* the k-th frame of fr
FrameAt(fr, k) == [index |-> k, kind |-> fr[k].kind, len |-> fr[k].len, bs |-> fr[k].bs]

\* the frame of a streamed file that byte t belongs to
FrameOfTok(t) ==
    FrameAt(FramesOf(TokId(t)),
            FrameIndexAt(FramesOf(TokId(t)), AudioStart(TokId(t)), TokOff(t), 1))

\* the frame that starts at a frame sync
FrameTable == [t \in SyncToks |-> FrameOfTok(t)]

\* whether byte t carries a frame sync
IsSync(t) == t \in SyncToks

\* flac_seek_frame(buf, size, ctx): offset of the first frame sync in the span, -1 if none
flac_seek_frame(span) ==
    IF \E i \in 1..Len(span) : IsSync(span[i])
        THEN (CHOOSE i \in 1..Len(span) :
                 IsSync(span[i]) /\ \A j \in 1..(i - 1) : ~IsSync(span[j])) - 1
        ELSE -1

\* a frame fr decodes when it is valid and all its bytes are in the span, in order
Decodable(frame_bytes, fr) ==
    /\ fr.kind = "valid"
    /\ Len(frame_bytes) >= fr.len
    /\ \A j \in 1..fr.len : frame_bytes[j] = frame_bytes[1] + j - 1

\* the decodes of frame fr from frame_bytes
DecodeFrame(ctx, frame_bytes, fr) ==
    IF Decodable(frame_bytes, fr)
        THEN {[result |-> 0, frame |-> fr.index,
               ctx |-> [ctx EXCEPT !.framesize = fr.len, !.blocksize = fr.bs]]}
        ELSE {[result |-> -1, frame |-> 0, ctx |-> [ctx EXCEPT !.framesize = n]] :
                 n \in {ctx.framesize, 0, fr.len}}

\* flac_decode_frame16 / flac_decode_frame24 (ctx, buf, buf_size, wavbuf), as the set
\* of its possible outcomes: result 0 on success, with framesize and blocksize of
\* the decoded frame.  A failed decode leaves in ctx.framesize the stale size of an
\* earlier frame, zero, or the length of the failed frame.
flac_decode_frame(ctx, frame_bytes) ==
    DecodeFrame(ctx, frame_bytes, FrameTable[frame_bytes[1]])

----------------------------------------------------------------------------
(* One decode step *)

\* unread = bytes_in_data_buf - (read_ptr - data_buf)
Unread(inst) == inst.bytes_in_data_buf - inst.read_ptr

\* the unread bytes data_buf[read_ptr .. bytes_in_data_buf)
Pending(inst) == SubSeq(inst.data, inst.read_ptr + 1, inst.bytes_in_data_buf)

\* need_refill without the test of the unread bytes against half the buffer
NeedRefill_NoThreshold(inst) == ~inst.eof_reached

\* need_refill without the end-of-stream test
NeedRefill_IgnoringEof(inst) == Unread(inst) < (inst.data_buf_size \div 2)

\* need_refill of handle_refill
NeedRefill(inst) == Unread(inst) < (inst.data_buf_size \div 2) /\ ~inst.eof_reached

\* the reads a refill of inst may see on stream f
RefillReads(inst, f) ==
    IF NeedRefill(inst)
        THEN freadOutcomes(f, inst.data_buf_size - Unread(inst))
        ELSE {[n |-> 0, err |-> FALSE, fp |-> f]}

\* the refill that takes every short read for the end of the stream
Refill_ShortIsEof(f, inst, rd) ==
    [inst EXCEPT !.data = Pending(inst) \o Toks(f.file, f.pos, rd.n),
                 !.bytes_in_data_buf = Unread(inst) + rd.n,
                 !.read_ptr = 0,
                 !.eof_reached = IF rd.n < inst.data_buf_size - Unread(inst)
                                     THEN TRUE ELSE inst.eof_reached]

\* lines 466-479: unread bytes moved to the front, rd.n bytes read behind them
Refill(f, inst, rd) ==
    [inst EXCEPT !.data = Pending(inst) \o Toks(f.file, f.pos, rd.n),
                 !.bytes_in_data_buf = Unread(inst) + rd.n,
                 !.read_ptr = 0,
                 !.eof_reached = IF rd.n < inst.data_buf_size - Unread(inst)
                                     THEN feof(rd.fp) ELSE inst.eof_reached]

\* the status of handle_refill without the end-of-stream case
RefillStatus_NoDone(inst) ==
    IF inst.bytes_in_data_buf = 0 THEN "NO_DATA_CONTINUE" ELSE "CONTINUE"

\* lines 484-488
RefillStatus(inst) ==
    IF inst.bytes_in_data_buf = 0
        THEN (IF inst.eof_reached THEN "DONE" ELSE "NO_DATA_CONTINUE")
        ELSE "CONTINUE"

\* what a step hands back: the status, the instance, output and stream it leaves,
\* whether it refilled, the frame offset found, whether the decoder was called, and
\* the frame decoded
StepResult(status, inst, out, f, refilled, offset, decoded, frame) ==
    [status |-> status, instance |-> inst, output |-> out, fp |-> f,
     refilled |-> refilled, offset |-> offset, decoded |-> decoded, frame |-> frame]

\* what handle_refill hands back: its status, the instance and stream it leaves,
\* and whether it read
RefillResult(inst, f, refilled) ==
    [status |-> RefillStatus(inst), instance |-> inst, fp |-> f, refilled |-> refilled]

\* handle_refill(fp, inst); rd is the outcome of its fread
handle_refill(f, inst, rd) ==
    IF NeedRefill(inst)
        THEN RefillResult(Refill(f, inst, rd), rd.fp, TRUE)
        ELSE RefillResult(inst, f, FALSE)

\* the skip by framesize + offset, without the floor of one byte
SkipFrame_NoFloor(inst, offset) ==
    IF inst.read_ptr + inst.ctx.framesize + offset > inst.bytes_in_data_buf
        THEN [inst EXCEPT !.read_ptr = 0, !.bytes_in_data_buf = 0, !.data = <<>>]
        ELSE [inst EXCEPT !.read_ptr = inst.read_ptr + inst.ctx.framesize + offset]

\* the skip without the reset of a read pointer that ran past the valid bytes
SkipFrame_NoReset(inst, offset) ==
    [inst EXCEPT !.read_ptr = inst.read_ptr + Max(1, inst.ctx.framesize + offset)]

\* the corrupt-frame skip of decode_flac, lines 552-558
SkipFrame(inst, offset) ==
    IF inst.read_ptr + Max(1, inst.ctx.framesize + offset) > inst.bytes_in_data_buf
        THEN [inst EXCEPT !.read_ptr = 0, !.bytes_in_data_buf = 0, !.data = <<>>]
        ELSE [inst EXCEPT !.read_ptr = inst.read_ptr + Max(1, inst.ctx.framesize + offset)]

\* status returned after a failed decode, line 559
SkipStatus(inst) == IF inst.eof_reached THEN "DONE" ELSE "NO_DATA_CONTINUE"

\* the compaction without the memmove: the count is cut, the bytes stay where they
\* are
Compact_InPlace(inst, offset) ==
    [inst EXCEPT !.data = SubSeq(inst.data, 1,
                                 Unread(inst) - Min(inst.ctx.framesize + offset, Unread(inst))),
                 !.read_ptr = 0,
                 !.bytes_in_data_buf =
                     Unread(inst) - Min(inst.ctx.framesize + offset, Unread(inst))]

\* the compaction after a decoded frame, lines 562-573
Compact(inst, offset) ==
    [inst EXCEPT !.data = SubSeq(inst.data, inst.read_ptr + offset + inst.ctx.framesize + 1,
                                 inst.bytes_in_data_buf),
                 !.read_ptr = 0,
                 !.bytes_in_data_buf =
                     Unread(inst) - Min(inst.ctx.framesize + offset, Unread(inst))]

\* bits_per_sample as set before the decode, lines 541 and 545
SetBits(out, ctx) == [out EXCEPT !.bits_per_sample = IF ctx.bps > 16 THEN 32 ELSE 16]

\* lines 578-580
SetFormat(out, ctx) ==
    [out EXCEPT !.sample_rate = ctx.samplerate, !.channels = ChannelsOut(ctx),
                !.frame_count = ctx.blocksize]

\* lines 548-582: d is what the frame decoder returned, inst holds its context
AfterDecode(r, out, inst, offset, d) ==
    IF d.result # 0
        THEN StepResult(SkipStatus(inst), SkipFrame(inst, offset), SetBits(out, inst.ctx),
                        r.fp, r.refilled, offset, TRUE, 0)
        ELSE StepResult("CONTINUE", Compact(inst, offset),
                        SetFormat(SetBits(out, inst.ctx), inst.ctx),
                        r.fp, r.refilled, offset, TRUE, d.frame)

\* lines 534-546
CallDecoder(r, out, offset, d) ==
    AfterDecode(r, out, [r.instance EXCEPT !.ctx = d.ctx], offset, d)

\* decode_flac after the seek, with a span without frame sync left in the buffer
AfterSeek_KeepBuffer(r, out, offset) ==
    IF offset < 0
        THEN {StepResult(IF r.instance.eof_reached THEN "DONE" ELSE "NO_DATA_CONTINUE",
                         r.instance, out, r.fp, r.refilled, -1, FALSE, 0)}
    ELSE IF RequiredBytes(r.instance.ctx) > out.samples_capacity_max
        THEN {StepResult("ERROR", r.instance, out, r.fp, r.refilled, offset, FALSE, 0)}
    ELSE UNION {{CallDecoder(r, out, offset, d) : d \in flac_decode_frame(r.instance.ctx, span)} :
                  span \in {SubSeq(Pending(r.instance), offset + 1, Unread(r.instance))}}

\* decode_flac after the seek, without the test of the output buffer's size
AfterSeek_Unchecked(r, out, offset) ==
    IF offset < 0
        THEN IF r.instance.eof_reached
                THEN {StepResult("DONE", r.instance, out, r.fp, r.refilled, -1, FALSE, 0)}
                ELSE {StepResult("NO_DATA_CONTINUE",
                                 [r.instance EXCEPT !.read_ptr = 0, !.bytes_in_data_buf = 0,
                                                    !.data = <<>>],
                                 out, r.fp, r.refilled, -1, FALSE, 0)}
    ELSE UNION {{CallDecoder(r, out, offset, d) : d \in flac_decode_frame(r.instance.ctx, span)} :
                  span \in {SubSeq(Pending(r.instance), offset + 1, Unread(r.instance))}}

\* lines 508-546: offset is what flac_seek_frame returned
AfterSeek(r, out, offset) ==
    IF offset < 0
        THEN IF r.instance.eof_reached
                THEN {StepResult("DONE", r.instance, out, r.fp, r.refilled, -1, FALSE, 0)}
                ELSE {StepResult("NO_DATA_CONTINUE",
                                 [r.instance EXCEPT !.read_ptr = 0, !.bytes_in_data_buf = 0,
                                                    !.data = <<>>],
                                 out, r.fp, r.refilled, -1, FALSE, 0)}
    ELSE IF RequiredBytes(r.instance.ctx) > out.samples_capacity_max
        THEN {StepResult("ERROR", r.instance, out, r.fp, r.refilled, offset, FALSE, 0)}
    ELSE UNION {{CallDecoder(r, out, offset, d) : d \in flac_decode_frame(r.instance.ctx, span)} :
                  span \in {SubSeq(Pending(r.instance), offset + 1, Unread(r.instance))}}

\* lines 497-504: r is what handle_refill returned
AfterRefill(r, out) ==
    IF r.status # "CONTINUE"
        THEN {StepResult(r.status, r.instance, out, r.fp, r.refilled, -1, FALSE, 0)}
        ELSE UNION {AfterSeek(r, out, offset) : offset \in {flac_seek_frame(Pending(r.instance))}}

\* decode_flac(fp, pData, pInstance), as the set of its possible results; rd is the
\* outcome of the refill's fread
decode_flac(f, out, inst, rd) ==
    UNION {AfterRefill(r, out) : r \in {handle_refill(f, inst, rd)}}

----------------------------------------------------------------------------
(* Calls *)

NoStep == [refilled |-> FALSE, n_read |-> 0, offset |-> -1, decoded |-> FALSE, frame |-> 0]

\* the record of a call that is no step: opened tells whether a stream is open, arg
\* is the required_bytes of a call of ensure_output_buffer
Called(op, ret, oom, opened, arg) ==
    [op |-> op, ret |-> ret, oom |-> oom, arg |-> arg, step |-> NoStep,
     produced |-> <<>>, dones |-> 0, opened |-> opened, fatal |-> FALSE, rderrs |-> 0]

\* the record of a step with result r and read rd, after the calls of record l:
\* the frames produced, the Done results (up to 2), whether a step failed and the
\* read errors since the stream was opened
Stepped(l, r, rd) ==
    [op |-> "step", ret |-> r.status, oom |-> "none", arg |-> 0,
     step |-> [refilled |-> r.refilled, n_read |-> IF r.refilled THEN rd.n ELSE 0,
               offset |-> r.offset, decoded |-> r.decoded, frame |-> r.frame],
     produced |-> IF r.status = "CONTINUE" THEN Append(l.produced, r.frame) ELSE l.produced,
     dones |-> IF r.status = "DONE" THEN Min(l.dones + 1, 2) ELSE l.dones,
     opened |-> l.opened,
     fatal |-> l.fatal \/ r.status = "ERROR",
     rderrs |-> IF rd.err THEN l.rderrs + 1 ELSE l.rderrs]

\* is_flac on file number f; oom names the allocation that fails, if any
Open(f, oom) ==
    \E r \in {is_flac(f, output, instance, oom)} :
        \* an allocation that is_flac does not make cannot fail
        /\ oom = "none" \/ r.nomem
        /\ instance' = r.instance
        /\ output' = r.output
        /\ fp' = r.fp
        /\ last' = Called("open", r.ok, oom, r.ok, 0)

\* decode_flac on the stream that was opened last
Step ==
    \E rd \in RefillReads(instance, fp) :
        /\ rd.err => last.rderrs < MaxReadErrors
        /\ \E r \in decode_flac(fp, output, instance, rd) :
              /\ instance' = r.instance
              /\ output' = r.output
              /\ fp' = r.fp
              /\ last' = Stepped(last, r, rd)

\* flac_instance_free
Close ==
    /\ instance' = flac_instance_free(instance)
    /\ last' = Called("close", TRUE, "none", FALSE, 0)
    /\ UNCHANGED <<output, fp>>

\* flac_instance_init
Reinit ==
    /\ instance' = flac_instance_init
    /\ last' = Called("init", TRUE, "none", FALSE, 0)
    /\ UNCHANGED <<output, fp>>

\* ensure_output_buffer called on its own
Ensure(required_bytes, allocOK) ==
    \E e \in {ensure_output_buffer(output, required_bytes, allocOK)} :
        /\ output' = e.output
        /\ last' = Called("ensure", e.ok, IF allocOK THEN "none" ELSE "samples", FALSE,
                          required_bytes)
        /\ UNCHANGED <<instance, fp>>

Init ==
    /\ instance = flac_instance_init
    /\ output = ZeroOutput
    /\ fp = [file |-> 0, pos |-> 0, eof |-> FALSE]
    /\ last = Called("init", TRUE, "none", FALSE, 0)

\* streams are opened, decoded step by step, closed and reopened; memory is not
\* short
Next ==
    \/ \E f \in StreamIds : Open(f, "none")
    \/ Step
    \/ Close
    \/ Reinit

Spec == Init /\ [][Next]_vars

\* the two files that set the scene for another: a small mono stream and a large
\* stereo one, both of which open
BaseIds ==
    {id \in ProbeIds :
        Files[id] \in {File(-1, 4, TRUE, <<InfoBlock(Mono24, TRUE)>>, 0, <<>>),
                       File(-1, 4, TRUE, <<InfoBlock(StreamInfo(2, 24, 4096, 5000, 44100), TRUE)>>,
                            0, <<>>)}}

\* files are only opened and closed; of two files opened in a row, one is a base
\* file
NextProbe ==
    \/ \E f \in ProbeIds : \E oom \in OomKinds :
          /\ fp.file \in BaseIds \cup {0} \/ f \in BaseIds
          /\ Open(f, oom)
    \/ Close
    \/ Reinit

SpecProbe == Init /\ [][NextProbe]_vars

\* the output buffer is sized by direct calls
NextEnsure == \E r \in 0..MaxRequired : \E allocOK \in BOOLEAN : Ensure(r, allocOK)

SpecEnsure == Init /\ [][NextEnsure]_vars

\* one stream is opened on a fresh handle and decoded by repeated steps
NextRun ==
    \/ \E f \in StreamIds : last.op = "init" /\ Open(f, "none")
    \/ last.opened /\ Step

\* the caller goes on calling decode_flac on the stream it opened; of the reads,
\* at most MaxReadErrors are cut short by an error
SpecRun == Init /\ [][NextRun]_vars /\ WF_vars(last.opened /\ Step)

TypeOK ==
    /\ instance.read_ptr \in Nat
    /\ Len(instance.data) = instance.bytes_in_data_buf

----------------------------------------------------------------------------
(* What the files hold *)

\* the file of the stream
TheFile == Files[fp.file]

\* block k of blocks is a STREAMINFO block that the metadata scan reaches
ReachedInfo(blocks, k) ==
    /\ blocks[k].type = 0 /\ blocks[k].len = StreamInfoLen
    /\ \A j \in 1..(k - 1) : ~blocks[j].last

\* a STREAMINFO block that is_flac must refuse
BadInfo(si) == si.ch \notin {1, 2} \/ si.max_bs = 0

\* file f: optional ID3 tag, the magic right after it, metadata blocks that end with
\* a last block and hold a STREAMINFO block, all of them acceptable, nothing missing
WellFormed(f) ==
    /\ f.lead = 0 /\ f.magic /\ f.cut = 0
    /\ f.blocks[Len(f.blocks)].last
    /\ \E k \in 1..Len(f.blocks) : ReachedInfo(f.blocks, k)
    /\ \A k \in 1..Len(f.blocks) : ReachedInfo(f.blocks, k) => ~BadInfo(f.blocks[k].si)

\* file f has one STREAMINFO block, and it must be refused
OneBadInfo(f) ==
    /\ \E k \in 1..Len(f.blocks) : ReachedInfo(f.blocks, k) /\ BadInfo(f.blocks[k].si)
    /\ Cardinality({k \in 1..Len(f.blocks) : f.blocks[k].type = 0}) = 1

\* file f has a STREAMINFO block that must be refused
SomeBadInfo(f) ==
    \E k \in 1..Len(f.blocks) : ReachedInfo(f.blocks, k) /\ BadInfo(f.blocks[k].si)

\* file f is a stereo 16-bit 44100 Hz stream of valid frames, none longer than the
\* advertised maximum frame size
CleanStream(f) ==
    /\ Len(f.blocks) = 1 /\ ReachedInfo(f.blocks, 1)
    /\ f.blocks[1].si.ch = 2 /\ f.blocks[1].si.bps = 16 /\ f.blocks[1].si.sr = 44100
    /\ f.frames # <<>>
    /\ \A k \in 1..Len(f.frames) :
          f.frames[k].kind = "valid" /\ f.frames[k].len <= f.blocks[1].si.max_fs

\* file f holds one corrupt frame between two valid frames
OneCorruptStream(f) ==
    /\ Len(f.frames) = 3
    /\ f.frames[1].kind = "valid" /\ f.frames[2].kind = "corrupt" /\ f.frames[3].kind = "valid"

\* the last call was the open of a well-formed file that holds no audio byte: the
\* file ends with its metadata blocks
EmptyAudio ==
    /\ last.op = "open"
    /\ WellFormed(TheFile) /\ TheFile.frames = <<>>

\* the last call was a step on a stream that opened and has met no read error
CleanStep == last.op = "step" /\ last.opened /\ last.rderrs = 0

\* the last call was a step in which the frame decoder failed
DecodeFailed == last.op = "step" /\ last.step.decoded /\ last.ret # "CONTINUE"

----------------------------------------------------------------------------
(* Properties *)

\* C1: in every reachable state the read cursor is at most the valid count, and the
\* valid count at most the capacity of the input buffer
C1_BufferBounds ==
    /\ 0 <= instance.read_ptr
    /\ instance.read_ptr <= instance.bytes_in_data_buf
    /\ instance.bytes_in_data_buf <= instance.data_buf_size

\* a step skipped a corrupt frame, after a refill and a compaction, and left the read
\* cursor inside the buffer
C1_Witness ==
    /\ DecodeFailed /\ last.produced # <<>>
    /\ instance.read_ptr > 0 /\ instance.read_ptr < instance.bytes_in_data_buf

\* C2: an open without allocation failure succeeds on every file made of an
\* optional ID3 tag, the magic right after it, and metadata blocks with an
\* acceptable STREAMINFO block
C2_WellFormedOpens ==
    (last.op = "open" /\ last.oom = "none" /\ WellFormed(TheFile)) => last.ret

\* C3: when the first Done is returned on a stream of one corrupt frame between two
\* valid frames, exactly two frames have been produced and no step has failed
C3_TwoProduced ==
    (CleanStep /\ OneCorruptStream(TheFile) /\ last.ret = "DONE" /\ last.dones = 1)
        => (Len(last.produced) = 2 /\ ~last.fatal)

\* C4: a step that follows a step that returned Done returns Done and leaves the
\* input buffer, the read cursor and the valid count as they were
C4_DoneTerminal ==
    [][(last.op = "step" /\ last.ret = "DONE" /\ last'.op = "step")
          => /\ last'.ret = "DONE"
             /\ instance'.data = instance.data
             /\ instance'.read_ptr = instance.read_ptr
             /\ instance'.bytes_in_data_buf = instance.bytes_in_data_buf]_vars

\* C5: when the first Done is returned on a stereo 16-bit 44100 Hz stream of N valid
\* frames, the N frames have been produced, once each and in order, as 44100 Hz
\* stereo, and no step has failed
C5_AllProduced ==
    (CleanStep /\ CleanStream(TheFile) /\ last.ret = "DONE" /\ last.dones = 1)
        => /\ last.produced = [k \in 1..Len(TheFile.frames) |-> k]
           /\ output.sample_rate = 44100 /\ output.channels = 2
           /\ ~last.fatal

\* C6: a step in which the decoder failed returns Done when end-of-stream is set and
\* no pending bytes remain, and NoDataRetry otherwise
C6_SkipStatus ==
    DecodeFailed =>
        last.ret = (IF instance.eof_reached /\ Unread(instance) = 0
                       THEN "DONE" ELSE "NO_DATA_CONTINUE")

\* C7: once eof_reached is set, a step leaves it set and does not read from the
\* stream
C7_EofMonotonic ==
    [][(instance.eof_reached /\ last'.op = "step")
          => (instance'.eof_reached /\ ~last'.step.refilled /\ fp' = fp)]_vars

\* a step decoded a frame without refilling, on a stream whose audio is shorter than
\* half the input buffer: only eof_reached kept it from refilling
C7_Witness ==
    /\ last.op = "step" /\ last.opened /\ last.ret = "CONTINUE"
    /\ instance.eof_reached /\ ~last.step.refilled
    /\ FileLen(fp.file) - AudioStart(fp.file) < instance.data_buf_size \div 2

\* C8: after an open that succeeded, samples_capacity is
\* max_blocksize * (channels = 1 ? 2 : channels) * (bps > 16 ? 4 : 2), and
\* samples_capacity_max is at least that
C8_OutputSize ==
    (last.op = "open" /\ last.ret) =>
        /\ output.samples_capacity =
              instance.ctx.max_blocksize
              * (IF instance.ctx.channels = 1 THEN 2 ELSE instance.ctx.channels)
              * (IF instance.ctx.bps > 16 THEN 4 ELSE 2)
        /\ output.samples_capacity_max >= output.samples_capacity

\* a mono stream of more than 16 bits opened, in an output buffer that a larger
\* stream had grown
C8_Witness ==
    /\ last.op = "open" /\ last.ret
    /\ instance.ctx.channels = 1 /\ instance.ctx.bps > 16
    /\ output.samples_capacity > 0
    /\ output.samples_capacity_max > 2 * output.samples_capacity

\* C9: an open never succeeds on a file with a STREAMINFO block of a channel count
\* outside {1, 2} or of max block size zero; when that block is the only STREAMINFO
\* block of the file, the open leaves the input buffer, the decode regions and the
\* output buffer as they were
C9_BadInfoRefused ==
    /\ []((last.op = "open" /\ SomeBadInfo(TheFile)) => ~last.ret)
    /\ [][(last'.op = "open" /\ OneBadInfo(Files[fp'.file]))
             => /\ instance'.data_buf = instance.data_buf
                /\ instance'.data_buf_size = instance.data_buf_size
                /\ instance'.ctx.decoded0 = instance.ctx.decoded0
                /\ instance'.ctx.decoded1 = instance.ctx.decoded1
                /\ output' = output]_vars

\* an open took in a STREAMINFO block of three or more channels and failed, on a
\* handle that held the buffers of an earlier stream
C9_Witness ==
    /\ last.op = "open" /\ ~last.ret /\ last.oom = "none"
    /\ OneBadInfo(TheFile)
    /\ instance.ctx.channels > 2
    /\ instance.data_buf /\ instance.ctx.decoded0 > 0

\* C10: no call of ensure_output_buffer, failed calls included, lowers
\* samples_capacity_max
C10_HighWaterMark ==
    [][output'.samples_capacity_max >= output.samples_capacity_max]_vars

\* a call for more than the buffer holds failed for want of memory, after the
\* buffer had grown
C10_Witness ==
    /\ last.op = "ensure" /\ ~last.ret /\ last.oom = "samples"
    /\ output.samples_capacity_max > 0
    /\ 2 * last.arg > output.samples_capacity_max

\* C11, as claimed: a call of ensure_output_buffer changes samples_capacity_max
\* only if required_bytes exceeds it, then to 2 * required_bytes, and leaves it as
\* it was when required_bytes does not exceed it
C11_GrowsAboveMark ==
    [][last'.op = "ensure"
          => /\ output'.samples_capacity_max # output.samples_capacity_max
                  => /\ last'.arg > output.samples_capacity_max
                     /\ output'.samples_capacity_max = 2 * last'.arg
             /\ last'.arg <= output.samples_capacity_max
                  => output'.samples_capacity_max = output.samples_capacity_max]_vars

\* C11, amended: a call of ensure_output_buffer changes samples_capacity_max only
\* if 2 * required_bytes exceeds it, then to 2 * required_bytes, and leaves it and
\* the buffer as they were when 2 * required_bytes does not exceed it
C11_GrowsAboveHalfMark ==
    [][last'.op = "ensure"
          => /\ output'.samples_capacity_max # output.samples_capacity_max
                  => /\ 2 * last'.arg > output.samples_capacity_max
                     /\ output'.samples_capacity_max = 2 * last'.arg
             /\ 2 * last'.arg <= output.samples_capacity_max
                  => /\ output'.samples_capacity_max = output.samples_capacity_max
                     /\ output'.samples = output.samples]_vars

\* a call succeeded although realloc would have failed: it asked for no more than
\* half of what the buffer holds, and did not reallocate
C11_Witness ==
    /\ last.op = "ensure" /\ last.ret /\ last.oom = "samples"
    /\ last.arg > 0 /\ 2 * last.arg < output.samples_capacity_max

\* C12: the first step after the open of a well-formed stream that holds no audio
\* byte returns DONE
C12_EmptyStreamDone ==
    [][(EmptyAudio /\ last'.op = "step") => last'.ret = "DONE"]_vars

\* the handle holds as many blocks as it has pointers that are not null: no block
\* is lost, none is freed twice
BlocksHeld ==
    /\ instance.heap.decoded0 = (IF instance.ctx.decoded0 # 0 THEN 1 ELSE 0)
    /\ instance.heap.decoded1 = (IF instance.ctx.decoded1 # 0 THEN 1 ELSE 0)
    /\ instance.heap.data_buf = (IF instance.data_buf THEN 1 ELSE 0)

\* the handle holds no allocation
NothingHeld ==
    /\ instance.ctx.decoded0 = 0 /\ instance.ctx.decoded1 = 0 /\ ~instance.data_buf
    /\ instance.heap = NoBlocks

\* C13: through opens that succeed, fail, or fail in the middle of the
\* allocations, every block of the handle is held by one of its pointers; after
\* flac_instance_free the handle holds nothing; flac_instance_free on a handle that
\* holds nothing (closed before, or never opened) changes nothing
C13_CloseReleasesAll ==
    /\ [](BlocksHeld /\ (last.op = "close" => NothingHeld))
    /\ [][(last'.op = "close" /\ (last.op \in {"close", "init"}))
             => instance' = instance]_vars

\* a handle was closed after the STREAMINFO of a stereo stream with blocks of 4096
\* samples had been taken in, and holds nothing
C13_Witness ==
    /\ last.op = "close" /\ NothingHeld
    /\ instance.ctx.channels = 2 /\ instance.ctx.max_blocksize = 4096

\* the pending bytes are the bytes of the stream's file that end at the position of
\* the FILE*, in file order, none before the audio region
PendingContiguous ==
    /\ Pending(instance) = Toks(fp.file, fp.pos - Unread(instance), Unread(instance))
    /\ fp.pos - Unread(instance) >= AudioStart(fp.file)

\* the pending bytes after the refill of the step that was just taken: the old
\* pending bytes, then the bytes read
Refilled == Pending(instance) \o Toks(fp.file, fp.pos, last'.step.n_read)

\* C14: on an open stream the pending bytes are a contiguous run of the file's audio
\* bytes that ends at the read position of the file, in file order; a step that
\* decodes a frame leaves the pending bytes as refilled less their first
\* min(offset + framesize, count) bytes, at the front of the buffer
C14_PendingInOrder ==
    /\ [](last.opened => PendingContiguous)
    /\ [][(last.opened /\ last'.op = "step" /\ last'.ret = "CONTINUE")
             => /\ instance'.read_ptr = 0
                /\ instance'.data =
                      SubSeq(Refilled,
                             Min(last'.step.offset + instance'.ctx.framesize, Len(Refilled)) + 1,
                             Len(Refilled))]_vars

\* a step read bytes behind pending ones, decoded a frame that was not the first and
\* left bytes pending
C14_Witness ==
    /\ last.op = "step" /\ last.opened /\ last.ret = "CONTINUE"
    /\ last.step.refilled /\ last.step.n_read > 0
    /\ Len(last.produced) >= 2
    /\ Unread(instance) > 0

\* C15: when a step on an open stream calls the frame decoder with end-of-stream not
\* set and no read error met, the span it hands over, from the frame sync to the end
\* of the pending bytes, is at least max_framesize bytes long
C15_FullSpan ==
    [][(last.opened /\ last'.op = "step" /\ last'.rderrs = 0
            /\ last'.step.decoded /\ ~instance'.eof_reached)
          => Unread(instance) + last'.step.n_read - last'.step.offset
                >= instance.ctx.max_framesize]_vars

\* the handle is in the failed state: the last call was the open of a file that is
\* not well-formed, and failed, or a step has returned ERROR since the last open
Failed ==
    \/ last.op = "open" /\ ~last.ret /\ ~WellFormed(TheFile)
    \/ last.op = "step" /\ last.fatal

\* C16: a step on a handle in the failed state returns ERROR and leaves the FILE*,
\* the instance and the output as they were
C16_FatalTerminal ==
    [][(Failed /\ last'.op = "step")
          => (last'.ret = "ERROR" /\ UNCHANGED <<instance, output, fp>>)]_vars

\* C20: a step leaves the output buffer, its size and its high-water mark as they
\* were; it calls the frame decoder only if max_blocksize * channels_out *
\* bytes_per_sample does not exceed the high-water mark, and returns ERROR without
\* calling it when a frame was found and the product exceeds the mark; no step on
\* a stream that opened returns ERROR
C20_OutputFits ==
    [][last'.op = "step"
          => /\ output'.samples = output.samples
             /\ output'.samples_capacity = output.samples_capacity
             /\ output'.samples_capacity_max = output.samples_capacity_max
             /\ last'.step.decoded
                   => RequiredBytes(instance.ctx) <= output.samples_capacity_max
             /\ (last'.step.offset >= 0
                    /\ RequiredBytes(instance.ctx) > output.samples_capacity_max)
                   => (last'.ret = "ERROR" /\ ~last'.step.decoded)
             /\ last.opened => last'.ret # "ERROR"]_vars

\* a step found a frame, needed more output than the buffer's high-water mark and
\* returned ERROR without a call of the frame decoder
C20_Witness ==
    /\ last.op = "step" /\ last.ret = "ERROR"
    /\ last.step.offset >= 0 /\ ~last.step.decoded
    /\ RequiredBytes(instance.ctx) > output.samples_capacity_max

\* the step just taken refilled, and its read returned fewer bytes than the
\* data_buf_size - unread bytes asked for
ShortRefill ==
    /\ last'.op = "step" /\ last'.step.refilled
    /\ last'.step.n_read < instance.data_buf_size - Unread(instance)

\* C17, as claimed: a step whose refill reads fewer bytes than asked for sets
\* eof_reached
C17_ShortReadSetsEof == [][ShortRefill => instance'.eof_reached]_vars

\* C17, amended: a step whose refill reads fewer bytes than asked for leaves in
\* eof_reached the end-of-file indicator of the stream: set when the file has
\* ended, not set when the read was cut short by an error
C17_ShortReadTakesFeof == [][ShortRefill => instance'.eof_reached = feof(fp')]_vars

\* a refill read no byte with the file not at its end, and eof_reached is not set
C17_Witness ==
    /\ last.op = "step" /\ last.step.refilled /\ last.step.n_read = 0
    /\ last.rderrs > 0
    /\ ~feof(fp) /\ ~instance.eof_reached

\* a skip of skip bytes that took the pending bytes from before to after: the read
\* pointer went on by skip, or all bytes were dropped because skip is more than
\* there were
SkippedBy(pending_before, skip, pending_after) ==
    /\ pending_after >= 0
    /\ pending_after < pending_before
    /\ pending_before - pending_after >= 1
    /\ pending_before - pending_after <= skip
    /\ pending_after = (IF skip > pending_before THEN 0 ELSE pending_before - skip)

\* C19: a step whose decode fails discards at least one pending byte and at most
\* max(1, framesize + offset): the read pointer goes on by max(1, framesize +
\* offset), or all pending bytes are dropped when that is more than there are; the
\* pending count goes down and stays at or above zero, whether the framesize left
\* by the decoder is that of the frame, zero or stale
C19_SkipBounded ==
    [][(last'.op = "step" /\ last'.step.decoded /\ last'.ret # "CONTINUE")
          => SkippedBy(Unread(instance) + last'.step.n_read,
                       Max(1, instance'.ctx.framesize + last'.step.offset),
                       Unread(instance'))]_vars

\* a decode failed on a frame at offset 0 with framesize left at zero, one byte was
\* skipped and bytes are still pending
C19_Witness ==
    /\ DecodeFailed
    /\ instance.ctx.framesize = 0 /\ last.step.offset = 0
    /\ instance.read_ptr >= 1 /\ Unread(instance) > 0

SeekFailed ==
    /\ last'.op = "step" /\ last'.step.offset = -1
    /\ (IF last'.step.refilled THEN Unread(instance) + last'.step.n_read
                               ELSE instance.bytes_in_data_buf) > 0

\* C21: a step that finds no frame sync in the pending bytes does not call the frame
\* decoder and leaves the output as it was; with eof_reached set it returns DONE
\* and leaves the buffer as the refill left it, else it empties the buffer
\* (bytes_in_data_buf = 0, read_ptr at data_buf) and returns NO_DATA_CONTINUE
C21_NoSync ==
    [][SeekFailed
          => /\ ~last'.step.decoded
             /\ output' = output
             /\ IF instance'.eof_reached
                   THEN /\ last'.ret = "DONE"
                        /\ Pending(instance') = Refilled
                        /\ ~last'.step.refilled => instance' = instance
                   ELSE /\ last'.ret = "NO_DATA_CONTINUE"
                        /\ instance'.bytes_in_data_buf = 0
                        /\ instance'.read_ptr = 0]_vars

\* a step read bytes, found no frame sync in the buffer with the end of the file
\* not reached, and emptied the buffer
C21_Witness ==
    /\ last.op = "step" /\ last.opened /\ last.ret = "NO_DATA_CONTINUE"
    /\ last.step.refilled /\ last.step.n_read > 0
    /\ last.step.offset = -1 /\ ~last.step.decoded
    /\ instance.bytes_in_data_buf = 0 /\ ~instance.eof_reached

\* the bytes in the buffer after the refill of the step that was just taken
AfterRefillBytes ==
    IF last'.step.refilled THEN Unread(instance) + last'.step.n_read
                           ELSE instance.bytes_in_data_buf

\* C22: a step reads from the file at most once, and only with fewer unread bytes
\* than half of data_buf_size and eof_reached not set; when the buffer holds no
\* byte after the refill the step returns DONE with eof_reached set and
\* NO_DATA_CONTINUE otherwise, finds and decodes no frame, and leaves the output
\* as it was
C22_RefillOnce ==
    [][last'.op = "step"
          => /\ last'.step.refilled
                   => /\ 2 * Unread(instance) < instance.data_buf_size
                      /\ ~instance.eof_reached
                      /\ last'.step.n_read <= instance.data_buf_size - Unread(instance)
                      /\ fp'.pos = fp.pos + last'.step.n_read
             /\ ~last'.step.refilled => fp' = fp
             /\ AfterRefillBytes = 0
                   => /\ last'.ret = (IF instance'.eof_reached THEN "DONE"
                                                               ELSE "NO_DATA_CONTINUE")
                      /\ last'.step.offset = -1 /\ ~last'.step.decoded
                      /\ instance'.bytes_in_data_buf = 0
                      /\ output' = output]_vars

\* a step on an open stream read no byte into an empty buffer, with the end of the
\* file not reached, and returned NO_DATA_CONTINUE
C22_Witness ==
    /\ last.op = "step" /\ last.opened /\ last.ret = "NO_DATA_CONTINUE"
    /\ last.step.refilled /\ last.step.n_read = 0
    /\ instance.bytes_in_data_buf = 0 /\ ~instance.eof_reached
    /\ last.produced = <<>>

====
